---- MODULE Spec2Model ----
(***************************************************************************)
(* Model of the Wavefront OBJ loader of obj.go: loadObjFromFile and the    *)
(* four line handlers it dispatches to.                                    *)
(*                                                                         *)
(* A string is a sequence of one-character strings, so strings.Split,      *)
(* strconv.Atoi and strconv.ParseFloat are computed character by           *)
(* character.  The alphabet of the model's input lines is                  *)
(*   space  /  -  0 1 2 3  v n t f p q                                     *)
(* over which a token is a valid float exactly when it is a valid decimal  *)
(* integer (no '.', 'e', 'x', 'i', 'a' or '_' is in the alphabet).         *)
(*                                                                         *)
(* A Go run-time panic (index or slice bounds out of range) is the outcome *)
(* "panic": loadObjFromFile has no recover, so the call never returns.     *)
(***************************************************************************)
EXTENDS Integers, Sequences, FiniteSets, TLC

VARIABLES pc, obj, lineNumber, line, ret, err

vars == <<pc, obj, lineNumber, line, ret, err>>

\* Number of lines the scanner delivers before the end of the file.
MaxLines == 6

-----------------------------------------------------------------------------
(* Strings                                                                 *)

Digits == <<"0", "1", "2", "3", "4", "5", "6", "7", "8", "9">>

IsDigit(c) == \E i \in 1..Len(Digits) : Digits[i] = c

DigitVal(c) == (CHOOSE i \in 1..Len(Digits) : Digits[i] = c) - 1

RECURSIVE DecimalVal(_)
DecimalVal(s) ==
    IF s = <<>> THEN 0
    ELSE 10 * DecimalVal(SubSeq(s, 1, Len(s) - 1)) + DigitVal(s[Len(s)])

\* strings.Split(s, sep) for a one-character separator: n separators give
\* n+1 pieces, empty pieces included; Split("", sep) is [""].
RECURSIVE Split(_, _)
Split(s, sep) ==
    IF \A i \in 1..Len(s) : s[i] # sep THEN <<s>>
    ELSE LET i == CHOOSE i \in 1..Len(s) :
                      s[i] = sep /\ \A j \in 1..(i - 1) : s[j] # sep
         IN  <<SubSeq(s, 1, i - 1)>> \o Split(SubSeq(s, i + 1, Len(s)), sep)

\* A signed decimal literal: optional sign, then at least one digit.
SignedDecimal(s) ==
    LET signed == s # <<>> /\ s[1] \in {"-", "+"}
        body   == IF signed THEN Tail(s) ELSE s
    IN  IF body # <<>> /\ \A i \in 1..Len(body) : IsDigit(body[i])
        THEN [ok  |-> TRUE,
              val |-> IF signed /\ s[1] = "-" THEN 0 - DecimalVal(body)
                      ELSE DecimalVal(body)]
        ELSE [ok |-> FALSE, val |-> 0]

\* strconv.Atoi
Atoi(s) == SignedDecimal(s)

\* strconv.ParseFloat(s, 64), over the model's alphabet
ParseFloat(s) == SignedDecimal(s)

-----------------------------------------------------------------------------
(* Values and outcomes                                                     *)

Nil == <<>>

Ptr(x) == <<x>>

EmptyObj == [Faces |-> <<>>, vertices |-> <<>>, textures |-> <<>>, normals |-> <<>>]

\* The line number of an error whose message holds none.
NoLine == 0

NoError == [kind |-> "nil", directive |-> "", field |-> "", line |-> NoLine]

\* errors.New(fmt.Sprintf("... in <directive> directive on line %d", lineNumber))
NewError(kind, directive, field, n) ==
    [kind |-> kind, directive |-> directive, field |-> field, line |-> n]

\* The *strconv.NumError of a failed Atoi, returned as it is: its message
\* names the function and the text, and no line.
NumError == [kind |-> "InvalidIndex", directive |-> "strconv.Atoi", field |-> "", line |-> NoLine]

\* The error of os.Open or of scanner.Err().
IOError == [kind |-> "IOError", directive |-> "", field |-> "", line |-> NoLine]

Vertex3(x, y, z) == [X |-> x, Y |-> y, Z |-> z]

Vertex2(x, y) == [X |-> x, Y |-> y]

Ok(o) == [kind |-> "ok", obj |-> o, err |-> NoError]

Fail(o, e) == [kind |-> "error", obj |-> o, err |-> e]

Panic(o) == [kind |-> "panic", obj |-> o, err |-> NoError]

-----------------------------------------------------------------------------
(* "Remove empty parts"                                                    *)
(*     for k, v := range parts {                                           *)
(*         if v == "" { parts = append(parts[:k], parts[k+1:]...) } }      *)
(* The range expression is evaluated once: the loop runs over the n        *)
(* elements of the original slice header, reading element k from the       *)
(* shared backing array a when it gets there.  append stays within the     *)
(* capacity n, so it shifts a[k+1..len-1] one place down in place and      *)
(* shortens parts by one; parts[k+1:] panics when k+1 exceeds len(parts).  *)
(* Indices below are 1-based: i = k + 1.                                   *)

RECURSIVE removeLoop(_, _, _)
removeLoop(a, len, i) ==
    IF i > Len(a) THEN [panic |-> FALSE, parts |-> SubSeq(a, 1, len)]
    ELSE IF a[i] # <<>> THEN removeLoop(a, len, i + 1)
    ELSE IF i > len THEN [panic |-> TRUE, parts |-> <<>>]
    ELSE removeLoop([j \in 1..Len(a) |->
                        IF i <= j /\ j <= len - 1 THEN a[j + 1] ELSE a[j]],
                    len - 1, i + 1)

removeEmptyParts(parts) == removeLoop(parts, Len(parts), 1)

-----------------------------------------------------------------------------
(* Vertex, normal and texture lines                                        *)

CoordName == <<"x", "y", "z">>

Min(S) == CHOOSE m \in S : \A k \in S : m <= k

\* The reads parts[1], parts[2], (parts[3]) with strconv.ParseFloat, in
\* order: the first coordinate that is missing panics (index out of range),
\* the first that does not parse is an error.
parseCoords(parts, count) ==
    LET bad == {c \in 1..count :
                   Len(parts) < c + 1 \/ ~ParseFloat(parts[c + 1]).ok}
    IN  IF bad = {}
        THEN [kind |-> "ok", field |-> "",
              vals |-> [c \in 1..count |-> ParseFloat(parts[c + 1]).val]]
        ELSE IF Len(parts) < Min(bad) + 1
        THEN [kind |-> "panic", field |-> "", vals |-> <<>>]
        ELSE [kind |-> "error", field |-> CoordName[Min(bad)], vals |-> <<>>]

\* The common shape of the three handlers: the length test on the raw split,
\* then the removal of empty parts, then the coordinates.
parseFloatLine(o, l, n, count, directive) ==
    LET parts == Split(l, " ")
    IN  IF Len(parts) < count + 1
        THEN Fail(o, NewError("MalformedDirective", directive, "", n))
        ELSE LET r == removeEmptyParts(parts)
             IN  IF r.panic THEN Panic(o)
                 ELSE LET c == parseCoords(r.parts, count)
                      IN  CASE c.kind = "panic" -> Panic(o)
                            [] c.kind = "error" ->
                                 Fail(o, NewError("InvalidNumber", directive, c.field, n))
                            [] OTHER -> [kind |-> "ok", obj |-> o, err |-> NoError,
                                         vals |-> c.vals]

parseVertexLine(o, l, n) ==
    LET r == parseFloatLine(o, l, n, 3, "vertex")
    IN  IF r.kind # "ok" THEN r
        ELSE Ok([o EXCEPT !.vertices =
                    Append(@, Vertex3(r.vals[1], r.vals[2], r.vals[3]))])

parseVertexNormalLine(o, l, n) ==
    LET r == parseFloatLine(o, l, n, 3, "vertex normal")
    IN  IF r.kind # "ok" THEN r
        ELSE Ok([o EXCEPT !.normals =
                    Append(@, Vertex3(r.vals[1], r.vals[2], r.vals[3]))])

parseVertexTextureLine(o, l, n) ==
    LET r == parseFloatLine(o, l, n, 2, "vertex texture")
    IN  IF r.kind # "ok" THEN r
        ELSE Ok([o EXCEPT !.textures = Append(@, Vertex2(r.vals[1], r.vals[2]))])

-----------------------------------------------------------------------------
(* Face lines                                                              *)

\* list[i] of a Go slice, 0-based: out of range panics.
InRange(list, i) == 0 <= i /\ i < Len(list)

At(list, i) == list[i + 1]

\* The three resolvers test the upper bound only, then read list[id-1].
resolveId(list, id, zero, e) ==
    IF id > Len(list) THEN [kind |-> "error", val |-> zero, err |-> e]
    ELSE IF ~InRange(list, id - 1) THEN [kind |-> "panic", val |-> zero, err |-> NoError]
    ELSE [kind |-> "ok", val |-> At(list, id - 1), err |-> NoError]

resolveVertexId(o, id, n) ==
    resolveId(o.vertices, id, Vertex3(0, 0, 0),
              NewError("UnresolvedReference", "vertex", "", n))

resolveVertexNormalId(o, id, n) ==
    resolveId(o.normals, id, Vertex3(0, 0, 0),
              NewError("UnresolvedReference", "vertex normal", "", n))

resolveVertexTextureId(o, id, n) ==
    resolveId(o.textures, id, Vertex2(0, 0),
              NewError("UnresolvedReference", "vertex texture", "", n))

\* One "// First vertex" block: split the group on "/", Atoi of args[0],
\* args[1], args[2] in turn (a missing one panics when it is indexed, which
\* is after the Atoi of the one before succeeded), then the three lookups
\* in the order vertex, texture, normal.
parseVertexGroup(o, group, n) ==
    LET args == Split(group, "/")
        zero == [v |-> Vertex3(0, 0, 0), t |-> Vertex2(0, 0), vn |-> Vertex3(0, 0, 0)]
        bad  == {k \in 1..3 : Len(args) < k \/ ~Atoi(args[k]).ok}
    IN  IF bad # {}
        THEN IF Len(args) < Min(bad)
             THEN [kind |-> "panic", err |-> NoError, val |-> zero]
             ELSE [kind |-> "error", err |-> NumError, val |-> zero]
        ELSE LET v  == resolveVertexId(o, Atoi(args[1]).val, n)
                 t  == resolveVertexTextureId(o, Atoi(args[2]).val, n)
                 vn == resolveVertexNormalId(o, Atoi(args[3]).val, n)
             IN  CASE v.kind # "ok"  -> [kind |-> v.kind, err |-> v.err, val |-> zero]
                   [] t.kind # "ok"  -> [kind |-> t.kind, err |-> t.err, val |-> zero]
                   [] vn.kind # "ok" -> [kind |-> vn.kind, err |-> vn.err, val |-> zero]
                   [] OTHER -> [kind |-> "ok", err |-> NoError,
                                val |-> [v |-> v.val, t |-> t.val, vn |-> vn.val]]

\* Face with the positions of the first two groups exchanged.
FaceSwapped(g1, g2, g3) ==
    [Vertices |-> <<g2.v, g1.v, g3.v>>,
     Textures |-> <<g1.t, g2.t, g3.t>>,
     Normals  |-> <<g1.vn, g2.vn, g3.vn>>]

Face(g1, g2, g3) ==
    [Vertices |-> <<g1.v, g2.v, g3.v>>,
     Textures |-> <<g1.t, g2.t, g3.t>>,
     Normals  |-> <<g1.vn, g2.vn, g3.vn>>]

Stop(o, g) == IF g.kind = "panic" THEN Panic(o) ELSE Fail(o, g.err)

parseFaceLine(o, l, n) ==
    LET r == removeEmptyParts(Split(l, " "))
    IN  IF r.panic THEN Panic(o)
        ELSE IF Len(r.parts) < 4
        THEN Fail(o, NewError("MalformedDirective", "face", "", n))
        ELSE LET first == parseVertexGroup(o, r.parts[2], n)
             IN  IF first.kind # "ok" THEN Stop(o, first)
                 ELSE LET second == parseVertexGroup(o, r.parts[3], n)
                      IN  IF second.kind # "ok" THEN Stop(o, second)
                          ELSE LET third == parseVertexGroup(o, r.parts[4], n)
                               IN  IF third.kind # "ok" THEN Stop(o, third)
                                   ELSE Ok([o EXCEPT !.Faces =
                                       Append(@, Face(first.val, second.val, third.val))])

-----------------------------------------------------------------------------
(* The lines a file may hold.                                              *)

Lines ==
    {
      <<>>,  \* "": blank line
      <<"v", "p", " ", "0", " ", "0">>,  \* "vp 0 0": unrecognized directive
      <<" ", "v", " ", "1", " ", "0", " ", "0">>,  \* " v 1 0 0": leading space
      <<"v", " ", "0", " ", "0", " ", "0">>,  \* "v 0 0 0"
      <<"v", " ", "1", " ", "0", " ", "0">>,  \* "v 1 0 0"
      <<"v", " ", " ", "1", " ", "0", " ", "0">>,  \* "v  1 0 0": doubled space
      <<"v", " ", "1", " ", "0", " ", "0", " ", "2">>,  \* "v 1 0 0 2": a fourth field
      <<"v", " ", " ", " ", "1", " ", "0", " ", "0">>,  \* "v   1 0 0": tripled space
      <<"v", " ", "1", " ", "0", " ", "0", " ", " ">>,  \* "v 1 0 0  ": two trailing spaces
      <<"v", " ", "1", " ", "0", " ">>,  \* "v 1 0 ": two fields and a trailing space
      <<"v", " ", "1", " ", "0">>,  \* "v 1 0": two fields
      <<"v", " ", "1", " ", "q", " ", "0">>,  \* "v 1 q 0": y is no number
      <<"v", "t", " ", "0", " ", "1">>,  \* "vt 0 1"
      <<"v", "t", " ", "0", " ">>,  \* "vt 0 ": one field and a trailing space
      <<"v", "t", " ", "0">>,  \* "vt 0": one field
      <<"v", "n", " ", "0", " ", "0", " ", "1">>,  \* "vn 0 0 1"
      <<"v", "n", " ", " ", "0", " ", "0">>,  \* "vn  0 0": two fields and a doubled space
      <<"v", "n", " ", "0", " ", "0">>,  \* "vn 0 0": two fields
      <<"f", " ", "1", "/", "1", "/", "1", " ", "2", "/", "1", "/", "1", " ", "1", "/", "1", "/", "1">>,  \* "f 1/1/1 2/1/1 1/1/1"
      <<"f", " ", "2", "/", "1", "/", "1", " ", " ", "1", "/", "1", "/", "1", " ", "1", "/", "1", "/", "1", " ", "1", "/", "1", "/", "1">>,  \* "f 2/1/1  1/1/1 1/1/1 1/1/1": doubled space, a fourth group
      <<"f", " ", "1", "/", "1", "/", "1", " ", " ", " ", "2", "/", "1", "/", "1", " ", "1", "/", "1", "/", "1">>,  \* "f 1/1/1   2/1/1 1/1/1": tripled space
      <<"f", " ", "1", "/", "1", "/", "1", " ", "1", "/", "1", "/", "1">>,  \* "f 1/1/1 1/1/1": two groups
      <<"f", " ", "1", " ", "2", " ", "3">>,  \* "f 1 2 3": no texture or normal index
      <<"f", " ", "1", "/", "1", " ", "1", "/", "1", " ", "1", "/", "1">>,  \* "f 1/1 1/1 1/1": no normal index
      <<"f", " ", "0", "/", "1", "/", "1", " ", "1", "/", "1", "/", "1", " ", "1", "/", "1", "/", "1">>,  \* "f 0/1/1 1/1/1 1/1/1": vertex index 0
      <<"f", " ", "1", "/", "1", "/", "-", "1", " ", "1", "/", "1", "/", "1", " ", "1", "/", "1", "/", "1">>,  \* "f 1/1/-1 1/1/1 1/1/1": negative normal index
      <<"f", " ", "1", "/", "q", "/", "1", " ", "1", "/", "1", "/", "1", " ", "1", "/", "1", "/", "1">>,  \* "f 1/q/1 1/1/1 1/1/1": texture index is no integer
      <<"f", " ", "3", "/", "1", "/", "1", " ", "1", "/", "1", "/", "1", " ", "1", "/", "1", "/", "1">>,  \* "f 3/1/1 1/1/1 1/1/1": vertex index 3
      <<"f", " ", "1", "/", "2", "/", "1", " ", "1", "/", "1", "/", "1", " ", "1", "/", "1", "/", "1">>,  \* "f 1/2/1 1/1/1 1/1/1": texture index 2
      <<"f", " ", "1", "/", "1", "/", "1", " ", "1", "/", "1", "/", "2", " ", "1", "/", "1", "/", "1">>  \* "f 1/1/1 1/1/2 1/1/1": normal index 2
    }

-----------------------------------------------------------------------------
(* loadObjFromFile                                                         *)

\* A switch on the first character of the line instead of on parts[0].
dispatchByFirstLetter(l) ==
    IF l = <<>> THEN "blank"
    ELSE CASE l[1] = "v" -> "v"
           [] l[1] = "f" -> "f"
           [] OTHER      -> "none"

\* The blank-line test and the switch on parts[0] of the raw split.
dispatch(l) ==
    IF l = <<>> THEN "blank"
    ELSE LET first == Split(l, " ")[1]
         IN  CASE first = <<"v">>      -> "v"
               [] first = <<"v", "n">> -> "vn"
               [] first = <<"v", "t">> -> "vt"
               [] first = <<"f">>      -> "f"
               [] OTHER                -> "none"

\* One iteration of the scanner loop on line l, the n-th of the file.
scanLine(o, l, n) ==
    CASE dispatch(l) = "v"  -> parseVertexLine(o, l, n)
      [] dispatch(l) = "vn" -> parseVertexNormalLine(o, l, n)
      [] dispatch(l) = "vt" -> parseVertexTextureLine(o, l, n)
      [] dispatch(l) = "f"  -> parseFaceLine(o, l, n)
      [] OTHER              -> Ok(o)

\* A cleanup that forgets obj.textures.
cleanupKeepingTextures(o) == [o EXCEPT !.vertices = <<>>, !.normals = <<>>]

\* "// Cleanup"
cleanup(o) == [o EXCEPT !.vertices = <<>>, !.normals = <<>>, !.textures = <<>>]

\* The lines each case of the switch takes, and those it takes nowhere.
VertexLines == {l \in Lines : dispatch(l) = "v"}

VertexNormalLines == {l \in Lines : dispatch(l) = "vn"}

VertexTextureLines == {l \in Lines : dispatch(l) = "vt"}

FaceLines == {l \in Lines : dispatch(l) = "f"}

SkippedLines == {l \in Lines : dispatch(l) \in {"blank", "none"}}

Init ==
    /\ pc = "open"
    /\ obj = EmptyObj
    /\ lineNumber = 0
    /\ line = <<>>
    /\ ret = Nil
    /\ err = NoError

\* os.Open succeeds.
Open ==
    /\ pc = "open"
    /\ pc' = "scan"
    /\ UNCHANGED <<obj, lineNumber, line, ret, err>>

\* os.Open fails: return nil, err.
OpenError ==
    /\ pc = "open"
    /\ pc' = "error"
    /\ err' = IOError
    /\ ret' = Nil
    /\ UNCHANGED <<obj, lineNumber, line>>

\* scanner.Scan() has a line to deliver.
HasLine == pc = "scan" /\ lineNumber < MaxLines

\* scanner.Scan() delivers line l; the loop body runs on it to its end, to
\* its "return nil, err", or to a panic.
Scan(l, r) ==
    /\ line' = l
    /\ lineNumber' = lineNumber + 1
    /\ pc' = IF r.kind = "ok" THEN "scan" ELSE r.kind
    /\ obj' = r.obj
    /\ err' = r.err
    /\ ret' = Nil

ReadVertexLine ==
    /\ HasLine
    /\ \E l \in VertexLines :
           Scan(l, parseVertexLine(obj, l, lineNumber + 1))

ReadVertexNormalLine ==
    /\ HasLine
    /\ \E l \in VertexNormalLines :
           Scan(l, parseVertexNormalLine(obj, l, lineNumber + 1))

ReadVertexTextureLine ==
    /\ HasLine
    /\ \E l \in VertexTextureLines :
           Scan(l, parseVertexTextureLine(obj, l, lineNumber + 1))

ReadFaceLine ==
    /\ HasLine
    /\ \E l \in FaceLines :
           Scan(l, parseFaceLine(obj, l, lineNumber + 1))

SkipLine ==
    /\ HasLine
    /\ \E l \in SkippedLines :
           Scan(l, Ok(obj))

\* scanner.Scan() returns false and scanner.Err() is nil: cleanup, return &obj.
EndOfFile ==
    /\ pc = "scan"
    /\ pc' = "done"
    /\ obj' = cleanup(obj)
    /\ ret' = Ptr(obj')
    /\ UNCHANGED <<lineNumber, line, err>>

\* scanner.Scan() returns false and scanner.Err() is not nil: return nil, err.
ScanError ==
    /\ pc = "scan"
    /\ pc' = "error"
    /\ err' = IOError
    /\ ret' = Nil
    /\ UNCHANGED <<obj, lineNumber, line>>

Next ==
    \/ Open
    \/ OpenError
    \/ ReadVertexLine
    \/ ReadVertexNormalLine
    \/ ReadVertexTextureLine
    \/ ReadFaceLine
    \/ SkipLine
    \/ EndOfFile
    \/ ScanError

Spec == Init /\ [][Next]_vars

-----------------------------------------------------------------------------
(* What the specification says of a line, for the properties below.        *)

NonEmpty(t) == t # <<>>

\* The non-empty space-separated tokens of a line.
Tokens(l) == SelectSeq(Split(l, " "), NonEmpty)

FirstToken(l) == IF Tokens(l) = <<>> THEN <<>> ELSE Tokens(l)[1]

\* The first piece of the raw split: the whole text before the first space.
RawFirst(l) == Split(l, " ")[1]

Directives == {<<"v">>, <<"v", "n">>, <<"v", "t">>, <<"f">>}

\* The step read a line.
Scanned == lineNumber' = lineNumber + 1

IsPrefix(s, t) == Len(s) <= Len(t) /\ \A i \in 1..Len(s) : t[i] = s[i]

\* The entries at the 1-based indices v/vt/vn of one vertex group.
GroupEntries(o, group) ==
    LET ids == Split(group, "/")
    IN  [v  |-> o.vertices[Atoi(ids[1]).val],
         t  |-> o.textures[Atoi(ids[2]).val],
         vn |-> o.normals[Atoi(ids[3]).val]]

\* C2: when an f line is accepted, exactly one Face is appended, and its k-th
\* position, texture coordinate and normal are the entries at the 1-based
\* indices of the line's k-th vertex group in the lists as they stand when
\* the line is reached; no step changes or removes a Face already appended.
C2_FaceResolvesGroupsInOrder ==
    [][/\ IsPrefix(obj.Faces, obj'.Faces)
       /\ (Scanned /\ pc' = "scan" /\ RawFirst(line') = <<"f">>)
             => Len(obj'.Faces) = Len(obj.Faces) + 1
       /\ (Scanned /\ RawFirst(line') # <<"f">>) => obj'.Faces = obj.Faces
       /\ obj'.Faces # obj.Faces
             => LET t == Tokens(line')
                    face == obj'.Faces[Len(obj'.Faces)]
                IN  /\ Scanned /\ pc' = "scan"
                    /\ obj'.Faces = Append(obj.Faces, face)
                    /\ \A k \in 1..3 :
                         LET g == GroupEntries(obj, t[k + 1])
                         IN  /\ face.Vertices[k] = g.v
                             /\ face.Textures[k] = g.t
                             /\ face.Normals[k] = g.vn
      ]_vars

\* A Face whose groups resolved to different positions is held unchanged
\* while a later v line is appended.
C2_Witness ==
    /\ pc = "scan"
    /\ Len(obj.Faces) = 1
    /\ obj.Faces[1].Vertices[1] # obj.Faces[1].Vertices[2]
    /\ RawFirst(line) = <<"v">>
    /\ Len(obj.vertices) = 3

\* The tuple a v, vn or vt line declares: its first count fields, as floats.
Declared(l, count) == [c \in 1..count |-> ParseFloat(Tokens(l)[c + 1]).val]

\* C10: during parsing the three lists only grow, by one entry at their end
\* for each accepted line of their own kind, which changes no other list
\* and no Face; a successful return leaves the three lists empty and
\* returns the mesh with every Face appended during the load.
C10_ListsAppendOnlyThenCleared ==
    [][/\ pc' # "done"
             => /\ IsPrefix(obj.vertices, obj'.vertices)
                /\ IsPrefix(obj.normals, obj'.normals)
                /\ IsPrefix(obj.textures, obj'.textures)
       /\ (Scanned /\ pc' = "scan")
             => LET d == Declared(line', 3)
                    u == Declared(line', 2)
                IN  /\ obj'.vertices =
                          IF RawFirst(line') = <<"v">>
                          THEN Append(obj.vertices, Vertex3(d[1], d[2], d[3]))
                          ELSE obj.vertices
                    /\ obj'.normals =
                          IF RawFirst(line') = <<"v", "n">>
                          THEN Append(obj.normals, Vertex3(d[1], d[2], d[3]))
                          ELSE obj.normals
                    /\ obj'.textures =
                          IF RawFirst(line') = <<"v", "t">>
                          THEN Append(obj.textures, Vertex2(u[1], u[2]))
                          ELSE obj.textures
                    /\ RawFirst(line') \in {<<"v">>, <<"v", "n">>, <<"v", "t">>}
                          => obj'.Faces = obj.Faces
       /\ pc' = "done"
             => /\ obj'.vertices = <<>>
                /\ obj'.normals = <<>>
                /\ obj'.textures = <<>>
                /\ obj'.Faces = obj.Faces
                /\ ret' = Ptr(obj')
      ]_vars

\* A load that appended a Face, so that held entries in all three lists,
\* has returned with the lists empty and the Face kept.
C10_Witness ==
    /\ pc = "done"
    /\ ret # Nil
    /\ Len(ret[1].Faces) >= 1
    /\ ret[1].vertices = <<>> /\ ret[1].normals = <<>> /\ ret[1].textures = <<>>

\* A blank line, or a line whose first token is none of v, vn, vt, f; the
\* first token read either as the first non-empty token or as the text
\* before the first space.
Unrecognized(l) == FirstToken(l) \notin Directives \/ RawFirst(l) \notin Directives

\* C8: a blank or unrecognized line raises no error and leaves Faces and the
\* three lists unchanged; and a line has the same outcome (success or
\* failure, lists and Faces) when one more line precedes it, so inserting
\* or removing such lines changes neither the success nor the Faces.
C8_IgnoredLinesHaveNoEffect ==
    [][Scanned
         => /\ Unrecognized(line')
                 => pc' = "scan" /\ obj' = obj /\ err' = NoError
            /\ LET r == scanLine(obj, line', lineNumber' + 1)
               IN  /\ pc' = (IF r.kind = "ok" THEN "scan" ELSE r.kind)
                   /\ obj' = r.obj
                   /\ err'.kind = r.err.kind
      ]_vars

\* An unrecognized line has been skipped after a Face had been appended.
C8_Witness ==
    /\ pc = "scan"
    /\ line # <<>>
    /\ Unrecognized(line)
    /\ Len(obj.Faces) >= 1
    /\ Len(obj.vertices) >= 2

-----------------------------------------------------------------------------
(* Well-formed and erroneous lines, as the specification defines them: on  *)
(* the non-empty tokens, with 1-based indices into the lists so far.       *)

\* The number of numeric fields a v, vn or vt line needs.
Needs(l) == IF FirstToken(l) = <<"v", "t">> THEN 2 ELSE 3

IsFloatLine(l) == FirstToken(l) \in {<<"v">>, <<"v", "n">>, <<"v", "t">>}

IsFaceLine(l) == FirstToken(l) = <<"f">>

\* Fewer tokens than the directive requires.
TooFewTokens(l) ==
    \/ IsFloatLine(l) /\ Len(Tokens(l)) < Needs(l) + 1
    \/ IsFaceLine(l) /\ Len(Tokens(l)) < 4

\* A required field of a v, vn or vt line is no float.
BadNumber(l) ==
    /\ IsFloatLine(l) /\ ~TooFewTokens(l)
    /\ \E c \in 1..Needs(l) : ~ParseFloat(Tokens(l)[c + 1]).ok

\* The '/'-separated fields of the k-th vertex group of an f line.
Fields(l, k) == Split(Tokens(l)[k + 1], "/")

\* One of the first three vertex groups lacks one of its three index fields.
MissingIndex(l) ==
    /\ IsFaceLine(l) /\ ~TooFewTokens(l)
    /\ \E k \in 1..3 : Len(Fields(l, k)) < 3

\* An index field of the first three vertex groups is no integer.
BadInteger(l) ==
    /\ IsFaceLine(l) /\ ~TooFewTokens(l) /\ ~MissingIndex(l)
    /\ \E k \in 1..3 : \E j \in 1..3 : ~Atoi(Fields(l, k)[j]).ok

FullTriplets(l) ==
    IsFaceLine(l) /\ ~TooFewTokens(l) /\ ~MissingIndex(l) /\ ~BadInteger(l)

\* The list the j-th index field of a vertex group refers to.
Referenced(o, j) ==
    CASE j = 1 -> o.vertices [] j = 2 -> o.textures [] OTHER -> o.normals

Index(l, k, j) == Atoi(Fields(l, k)[j]).val

\* An index of the first three vertex groups is below 1.
IndexBelowOne(l) ==
    FullTriplets(l) /\ \E k \in 1..3 : \E j \in 1..3 : Index(l, k, j) < 1

\* An index of the first three vertex groups exceeds its list.
IndexAboveList(l, o) ==
    /\ FullTriplets(l)
    /\ \E k \in 1..3 : \E j \in 1..3 : Index(l, k, j) > Len(Referenced(o, j))

Erroneous(l, o) ==
    \/ TooFewTokens(l)
    \/ BadNumber(l)
    \/ MissingIndex(l)
    \/ BadInteger(l)
    \/ IndexBelowOne(l)
    \/ IndexAboveList(l, o)

\* Blank, unrecognized, or a v, vn, vt or f line with all its fields, the
\* vertex groups of an f line being exactly three integers within 1 and the
\* length of their lists.
WellFormed(l, o) ==
    /\ ~Erroneous(l, o)
    /\ IsFaceLine(l) => \A k \in 1..3 : Len(Fields(l, k)) = 3

RECURSIVE Join(_)
Join(tokens) ==
    IF tokens = <<>> THEN <<>>
    ELSE IF Len(tokens) = 1 THEN tokens[1]
    ELSE tokens[1] \o <<" ">> \o Join(Tail(tokens))

\* The tokens of the line joined by single spaces.
Canon(l) == Join(Tokens(l))

\* C1: a line that is well-formed against the lists so far is processed
\* without failure and appends exactly one Face if it is an f line and none
\* otherwise, and the end of the file then returns the mesh with these
\* Faces; so, by induction on the lines, an input of well-formed lines
\* loads and yields as many Faces as it has f lines, in file order.
C1_WellFormedInputLoads ==
    [][/\ (Scanned /\ WellFormed(line', obj))
             => /\ pc' = "scan"
                /\ Len(obj'.Faces) =
                      Len(obj.Faces) + (IF IsFaceLine(line') THEN 1 ELSE 0)
                /\ IsPrefix(obj.Faces, obj'.Faces)
       /\ pc' = "done" => ret' # Nil /\ ret'[1].Faces = obj.Faces
      ]_vars

\* C3: an f line of three full integer triplets with an index below 1 or
\* above the length of its list fails with an UnresolvedReference error
\* that is returned, with no mesh.
C3_BadIndexIsUnresolvedReference ==
    [][(/\ Scanned
        /\ RawFirst(line') = <<"f">>
        /\ IndexBelowOne(line') \/ IndexAboveList(line', obj))
          => /\ pc' = "error"
             /\ err'.kind = "UnresolvedReference"
             /\ err'.line = lineNumber'
             /\ ret' = Nil
      ]_vars

\* C4: a v or vn line with fewer than 3 fields, or a vt line with fewer than
\* 2, counted on the non-empty tokens, fails with a MalformedDirective error
\* for its line.
C4_TooFewFieldsIsMalformedDirective ==
    [][(/\ Scanned
        /\ RawFirst(line') \in {<<"v">>, <<"v", "n">>, <<"v", "t">>}
        /\ TooFewTokens(line'))
          => /\ pc' = "error"
             /\ err'.kind = "MalformedDirective"
             /\ err'.line = lineNumber'
             /\ ret' = Nil
      ]_vars

\* C5: an f line one of whose first three vertex groups lacks an index field
\* fails: the load returns an error and no mesh.
C5_MissingIndexFieldFails ==
    [][(Scanned /\ RawFirst(line') = <<"f">> /\ MissingIndex(line'))
          => /\ pc' = "error"
             /\ err' # NoError
             /\ ret' = Nil
      ]_vars

\* C6: the first erroneous line makes the load return an error and no mesh;
\* nothing happens after an error was returned, and a mesh is returned only
\* by a load that reached the end of the file.
C6_FailFast ==
    [][/\ (Scanned /\ RawFirst(line') \in Directives /\ Erroneous(line', obj))
             => /\ pc' = "error"
                /\ err' # NoError
                /\ ret' = Nil
       /\ pc # "error"
       /\ ret' # Nil => pc' = "done"
      ]_vars

\* C7: a format error returned by the load carries the 1-based number of
\* the line it was raised on, blank and ignored lines counted.
C7_FormatErrorsCarryLineNumber ==
    (/\ pc = "error"
     /\ err.kind \in {"MalformedDirective", "InvalidNumber", "InvalidIndex",
                       "UnresolvedReference"})
      => err.line = lineNumber /\ lineNumber >= 1

\* C9: a line has the outcome of its non-empty tokens joined by single
\* spaces.
C9_ExtraSpacesChangeNothing ==
    [][Scanned
         => LET r == scanLine(obj, Canon(line'), lineNumber')
            IN  /\ pc' = (IF r.kind = "ok" THEN "scan" ELSE r.kind)
                /\ obj' = r.obj
                /\ err' = r.err
      ]_vars

====
